---- MODULE Spec2Model ----
(***************************************************************************)
(* ThreadManager.run_thread of backend/core/agentpress/thread_manager.py:  *)
(* the turn orchestrator (_run_once) and the auto-continue driver          *)
(* (auto_continue_wrapper), with the chunk stream of the response          *)
(* processor as the environment.                                           *)
(***************************************************************************)
EXTENDS Integers, Sequences, FiniteSets, TLC

VARIABLES
    native_max_auto_continues, \* the ceiling passed to run_thread
    llm_model,                 \* model name, a sequence of name parts
    history,                   \* the thread's stored LLM messages
    auto_continue,             \* the driver's should-continue flag
    auto_continue_count,       \* the driver's iteration counter
    accumulated_content,       \* continuous_state['accumulated_content']
    pc,                        \* position of run_thread / the generator
    out,                       \* chunks the caller has observed, in order
    produced,                  \* chunks the interpreter has produced, in order
    runs,                      \* number of _run_once invocations so far
    contRuns,                  \* those that followed a continuation signal
    trigger,                   \* why the loop head was reached
    exit,                      \* how the generator finished
    prepared,                  \* prepared_messages of the latest _run_once
    overloads,                 \* overload exceptions raised so far
    exhausted,                 \* runs whose stream was consumed to its end
    failures,                  \* error records and non-overload exceptions so far
    returned,                  \* what run_thread returned to its caller
    \* one _run_once in detail
    step,                      \* position inside _run_once
    context_window,            \* model_manager.get_context_window(llm_model)
    messages,                  \* the history as _run_once holds it
    token_count,               \* the pre-check count of prompt plus history
    prepared_messages,         \* the request being prepared
    final_token_count,         \* the count of the prepared request
    safe_limit,                \* the budget derived from the context window
    compressed_token_count,    \* the count after the primary compression
    calls,                     \* collaborator calls made so far, in order
    request,                   \* what the transport was called with
    result,                    \* what _run_once returned
    swallowed,                 \* steps whose exception was logged and dropped
    loaded,                    \* how the history load ended
    annotation,                \* what the cache annotator did
    \* add_message
    account,                   \* the owning account of the thread, if any
    messages_table,            \* the rows of the messages table, oldest first
    deductions,                \* the calls of billing deduct_usage, in order
    replies,                   \* what each add_message call gave its caller
    \* get_llm_messages
    rows,                      \* the thread's LLM rows ordered by created_at
    offset,                    \* offset of the next batch
    all_messages,              \* the rows fetched so far
    fetch_pc,                  \* position inside get_llm_messages
    fetched,                   \* the list get_llm_messages returned
    queries,                   \* number of store queries made
    \* what the caller of run_thread passed
    tool_choice,               \* the tool_choice argument
    native_tool_calling,       \* processor_config.native_tool_calling
    temporary_message,         \* the temporary_message argument
    temp_msg,                  \* the argument _run_once was called with
    \* the system prompt and its working copy (lines 417-487)
    system_prompt,             \* the caller's mapping
    working_prompt,            \* working_system_prompt, the copy of line 418
    heap_lists,                \* the list objects, by address
    heap_dicts,                \* the content blocks (mappings), by address
    given,                     \* what the caller's system prompt held at the call
    include_xml_examples,      \* the include_xml_examples argument
    xml_tool_calling,          \* processor_config.xml_tool_calling
    openapi_schemas,           \* tool_registry.get_openapi_schemas() at line 422
    item_index,                \* position of the loop of line 478
    prompt_pc                  \* position inside lines 417-487

driverVars == <<native_max_auto_continues, llm_model, history, auto_continue,
                auto_continue_count, accumulated_content, pc, out, produced,
                runs, contRuns, trigger, exit, prepared, overloads, exhausted,
                failures, returned>>

onceVars == <<step, context_window, messages, token_count, prepared_messages,
              final_token_count, safe_limit, compressed_token_count, calls,
              request, result, swallowed, loaded, annotation>>

storeVars == <<account, messages_table, deductions, replies>>

fetchVars == <<rows, offset, all_messages, fetch_pc, fetched, queries>>

callerVars == <<tool_choice, native_tool_calling, temporary_message, temp_msg>>

promptVars == <<system_prompt, working_prompt, heap_lists, heap_dicts, given,
                include_xml_examples, xml_tool_calling, openapi_schemas,
                item_index, prompt_pc>>

vars == <<driverVars, onceVars, storeVars, fetchVars, callerVars, promptVars>>

\* What the auto-continue driver never touches: the inside of one _run_once
\* and the message store.
elsewhere == <<onceVars, storeVars, fetchVars, callerVars, promptVars>>

\* What one _run_once, looked at in detail, never touches.
outside == <<driverVars, storeVars, fetchVars, callerVars, promptVars>>

\* No _run_once is being looked at in detail.
OnceIdle ==
    /\ step = "idle"
    /\ context_window = 0
    /\ messages = <<>>
    /\ token_count = 0
    /\ prepared_messages = <<>>
    /\ final_token_count = 0
    /\ safe_limit = 0
    /\ compressed_token_count = 0
    /\ calls = <<>>
    /\ request = [sent |-> FALSE, messages |-> <<>>, tool_choice |-> "unset",
                  tools |-> [given |-> FALSE, schemas |-> <<>>]]
    /\ result = [type |-> "none"]
    /\ swallowed = {}
    /\ loaded = "none"
    /\ annotation = "none"

\* No add_message call is being looked at.
StoreIdle ==
    /\ account = "none"
    /\ messages_table = <<>>
    /\ deductions = <<>>
    /\ replies = <<>>

\* No Message stands for None where a message may be passed.
NoMessage == [role |-> "none", content |-> <<>>]

\* What the caller passed while another part of the program is looked at:
\* the defaults of run_thread's signature, native tool calling enabled.
CallerDefaults ==
    /\ tool_choice = "auto"
    /\ native_tool_calling = TRUE
    /\ temporary_message = NoMessage
    /\ temp_msg = NoMessage

\* The content of a system prompt: a string (its parts in text), a reference
\* to a list object (its address in at), or neither.
StrContent(text) == [kind |-> "str", text |-> text, at |-> 0]

ListContent(address) == [kind |-> "list", text |-> <<>>, at |-> address]

NoContent == [kind |-> "none", text |-> <<>>, at |-> 0]

\* What a prompt holds for whoever reads it: its string, or the blocks its
\* list object refers to, as they are now.
DeepValue(prompt) ==
    IF prompt.content.kind = "list"
    THEN [kind |-> "list", text |-> <<>>,
          items |-> [i \in DOMAIN heap_lists[prompt.content.at] |->
                        heap_dicts[heap_lists[prompt.content.at][i]]]]
    ELSE [kind |-> prompt.content.kind, text |-> prompt.content.text,
          items |-> <<>>]

\* The system prompt has been prepared: a string prompt, nothing embedded.
PromptIdle ==
    /\ system_prompt = [role |-> "system", content |-> StrContent(<<"prompt">>)]
    /\ working_prompt = system_prompt
    /\ heap_lists = <<>>
    /\ heap_dicts = <<>>
    /\ given = DeepValue(system_prompt)
    /\ include_xml_examples = FALSE
    /\ xml_tool_calling = FALSE
    /\ openapi_schemas = <<>>
    /\ item_index = 0
    /\ prompt_pc = "idle"

\* No get_llm_messages call is being looked at.
FetchIdle ==
    /\ rows = <<>>
    /\ offset = 0
    /\ all_messages = <<>>
    /\ fetch_pc = "idle"
    /\ fetched = <<>>
    /\ queries = 0

(***************************************************************************)
(* Bounds of the model.                                                    *)
(***************************************************************************)
MaxCeiling == 2

MaxChunks == 2

MaxOverloads == 2

(***************************************************************************)
(* Model names: "-20250514" is the dated suffix the fallback removes,      *)
(* "openrouter/" the prefix it adds.                                       *)
(***************************************************************************)
DatedSuffix == "-20250514"

FallbackPrefix == "openrouter/"

\* str.replace("-20250514", ""): every occurrence of the suffix is removed.
RemoveDated(name) == SelectSeq(name, LAMBDA part : part # DatedSuffix)

FallbackModel(name) == <<FallbackPrefix>> \o RemoveDated(name)

(***************************************************************************)
(* Messages and the prepared request.                                      *)
(***************************************************************************)
Msg(role, content) == [role |-> role, content |-> content]

working_system_prompt == Msg("system", <<"prompt">>)

\* The calls of run_thread the model starts from: a model name and a history.
Inputs ==
    { [llm_model |-> <<"gpt-5">>, history |-> <<>>],
      [llm_model |-> <<"anthropic/claude-sonnet-4", DatedSuffix>>,
       history |-> <<Msg("system", <<"old">>), Msg("user", <<"q">>),
                     Msg("assistant", <<"a">>)>>] }

FilterSystem(msgs) == SelectSeq(msgs, LAMBDA m : m.role # "system")

TemporaryAssistantMessage == Msg("assistant", accumulated_content)

\* Faulty variant: the partial content is appended on the first iteration too.
PreparedMessages_AnyIteration(msgs) ==
    <<working_system_prompt>> \o FilterSystem(msgs)
      \o (IF accumulated_content # <<>>
          THEN <<TemporaryAssistantMessage>>
          ELSE <<>>)

PreparedMessages(msgs) ==
    <<working_system_prompt>> \o FilterSystem(msgs)
      \o (IF auto_continue_count > 0 /\ accumulated_content # <<>>
          THEN <<TemporaryAssistantMessage>>
          ELSE <<>>)

(***************************************************************************)
(* Chunks.  Every chunk is a record of the same shape; run = 0 marks a     *)
(* chunk the driver itself made, run >= 1 the _run_once whose stream       *)
(* produced it.                                                            *)
(***************************************************************************)
Chunk(type, reason, content, status, message) ==
    [type |-> type, finish_reason |-> reason, content |-> content,
     status |-> status, message |-> message, run |-> 0, idx |-> 0]

JsonLength == "{finish_reason: length}"

JsonOther == "{status_type: thread_run_end}"

NotJson == "null"

InterpreterChunks ==
    { Chunk("content", "none", "text", "none", "none"),
      Chunk("finish", "stop", "none", "none", "none"),
      Chunk("finish", "tool_calls", "none", "none", "none"),
      Chunk("finish", "xml_tool_limit_reached", "none", "none", "none"),
      Chunk("status", "none", JsonLength, "none", "none"),
      Chunk("status", "none", JsonOther, "none", "none"),
      Chunk("status", "none", NotJson, "none", "none") }

\* Faulty variant: the embedded finish reason is never recognised.
JsonLoads_NoReason(text) ==
    [ok |-> text \in { JsonLength, JsonOther }, finish_reason |-> "none"]

\* json.loads(chunk.get('content')) followed by content.get('finish_reason')
JsonLoads(text) ==
    IF text = JsonLength THEN [ok |-> TRUE, finish_reason |-> "length"]
    ELSE IF text = JsonOther THEN [ok |-> TRUE, finish_reason |-> "none"]
    ELSE [ok |-> FALSE, finish_reason |-> "none"]

ErrorRecord(message) == Chunk("status", "none", "none", "error", message)

LimitChunk == Chunk("content", "none", "limit", "none", "none")

OverloadMarker == "AnthropicException - Overloaded"

IsOverloaded(message) == message = OverloadMarker

(***************************************************************************)
(* Initial state: run_thread has been called, nothing has run yet.         *)
(***************************************************************************)
Init ==
    /\ native_max_auto_continues \in 0..MaxCeiling
    /\ \E input \in Inputs :
          /\ llm_model = input.llm_model
          /\ history = input.history
    /\ auto_continue = TRUE
    /\ auto_continue_count = 0
    /\ accumulated_content = <<>>
    /\ pc = "start"
    /\ out = <<>>
    /\ produced = <<>>
    /\ runs = 0
    /\ contRuns = 0
    /\ trigger = "start"
    /\ exit = "none"
    /\ prepared = <<>>
    /\ overloads = 0
    /\ exhausted = {}
    /\ failures = 0
    /\ returned = "none"
    /\ OnceIdle
    /\ StoreIdle
    /\ FetchIdle
    /\ CallerDefaults
    /\ PromptIdle

\* What run_thread never changes after the call.
arguments == <<native_max_auto_continues, history>>

(***************************************************************************)
(* _run_once.  get_llm_messages returns [] when the store query fails and  *)
(* raises only when the client cannot be obtained; the transport call may  *)
(* raise; every exception becomes the error record.                        *)
(***************************************************************************)
RunOnceOutcomes ==
    { "ok", "store_failed", "client_error", "transport_error", "transport_overloaded" }

RunOnceFails(outcome) ==
    outcome \in { "client_error", "transport_error", "transport_overloaded" }

RunOnceMessage(outcome) ==
    IF outcome = "transport_overloaded" THEN OverloadMarker ELSE outcome

get_llm_messages(outcome) == IF outcome = "store_failed" THEN <<>> ELSE history

RunOnce(outcome) ==
    /\ runs' = runs + 1
    /\ prepared' = IF outcome = "client_error"
                   THEN <<>>
                   ELSE PreparedMessages(get_llm_messages(outcome))

(***************************************************************************)
(* The environment: the interpreter's stream of the current _run_once.     *)
(***************************************************************************)
StreamOf(r) == SelectSeq(produced, LAMBDA c : c.run = r)

NextChunk(c) == [c EXCEPT !.run = runs, !.idx = Len(StreamOf(runs)) + 1]

\* The interpreter accumulates the text it streams in continuous_state.
Accumulate(c) ==
    IF c.type = "content" THEN Append(accumulated_content, c.content)
    ELSE accumulated_content

\* Faulty variant: a yielded chunk overtakes the chunks yielded before it.
Yield_Prepend(chunk) == out' = <<chunk>> \o out

Yield(chunk) == out' = Append(out, chunk)

(***************************************************************************)
(* run_thread's last lines: with a ceiling of 0 the result of one          *)
(* _run_once is returned as it is, otherwise the wrapper generator.        *)
(***************************************************************************)
\* Faulty variant: the test for a disabled ceiling never succeeds.
AutoContinueDisabled_Never == native_max_auto_continues < 0

AutoContinueDisabled == native_max_auto_continues = 0

StartDirect ==
    /\ pc = "start"
    /\ AutoContinueDisabled
    /\ \E outcome \in RunOnceOutcomes :
          /\ RunOnce(outcome)
          /\ IF RunOnceFails(outcome)
             THEN /\ returned' = "error_record"
                  /\ pc' = "done"
                  /\ exit' = "return"
                  /\ failures' = failures + 1
             ELSE /\ returned' = "generator"
                  /\ pc' = "direct_iter"
                  /\ UNCHANGED <<exit, failures>>
    /\ UNCHANGED <<arguments, llm_model, auto_continue, auto_continue_count,
                   accumulated_content, out, produced, contRuns, trigger,
                   overloads, exhausted>>
    /\ UNCHANGED elsewhere

StartWrapper ==
    /\ pc = "start"
    /\ ~AutoContinueDisabled
    /\ returned' = "wrapper"
    /\ pc' = "while"
    /\ UNCHANGED <<arguments, llm_model, auto_continue, auto_continue_count,
                   accumulated_content, out, produced, runs, contRuns, trigger,
                   exit, prepared, overloads, exhausted, failures>>
    /\ UNCHANGED elsewhere

(***************************************************************************)
(* The caller iterating the generator that a ceiling of 0 returns.         *)
(***************************************************************************)
DirectChunk ==
    /\ pc = "direct_iter"
    /\ Len(produced) < MaxChunks
    /\ \E c \in InterpreterChunks :
          /\ produced' = Append(produced, NextChunk(c))
          /\ Yield(NextChunk(c))
          /\ accumulated_content' = Accumulate(c)
    /\ UNCHANGED <<arguments, llm_model, auto_continue, auto_continue_count, pc,
                   runs, contRuns, trigger, exit, prepared, overloads, exhausted,
                   failures, returned>>
    /\ UNCHANGED elsewhere

DirectEnd ==
    /\ pc = "direct_iter"
    /\ pc' = "done"
    /\ exit' = "end"
    /\ exhausted' = exhausted \cup {runs}
    /\ UNCHANGED <<arguments, llm_model, auto_continue, auto_continue_count,
                   accumulated_content, out, produced, runs, contRuns, trigger,
                   prepared, overloads, failures, returned>>
    /\ UNCHANGED elsewhere

DirectRaises ==
    /\ pc = "direct_iter"
    /\ pc' = "done"
    /\ exit' = "raised"
    /\ failures' = failures + 1
    /\ UNCHANGED <<arguments, llm_model, auto_continue, auto_continue_count,
                   accumulated_content, out, produced, runs, contRuns, trigger,
                   prepared, overloads, exhausted, returned>>
    /\ UNCHANGED elsewhere

(***************************************************************************)
(* auto_continue_wrapper: the loop head.                                   *)
(***************************************************************************)
\* Faulty variant: the loop head forgets the ceiling.
LoopCondition_NoCeiling == auto_continue

LoopCondition ==
    /\ auto_continue
    /\ \/ native_max_auto_continues = 0
       \/ auto_continue_count < native_max_auto_continues

\* Faulty variant: an overload reported in the error record is retried.
ErrorRecordReturned_RetriesOverload(message) ==
    IF IsOverloaded(message)
    THEN /\ pc' = "while"
         /\ UNCHANGED <<out, exit>>
    ELSE /\ Yield(ErrorRecord(message))
         /\ pc' = "done"
         /\ exit' = "return"

\* The error record of _run_once is yielded and the generator returns.
ErrorRecordReturned(message) ==
    /\ Yield(ErrorRecord(message))
    /\ pc' = "done"
    /\ exit' = "return"

LoopRunOnce ==
    /\ pc = "while"
    /\ LoopCondition
    /\ auto_continue' = FALSE
    /\ contRuns' = IF trigger = "signal" THEN contRuns + 1 ELSE contRuns
    /\ \E outcome \in RunOnceOutcomes :
          /\ RunOnce(outcome)
          /\ IF RunOnceFails(outcome)
             THEN /\ ErrorRecordReturned(RunOnceMessage(outcome))
                  /\ failures' = failures + 1
             ELSE /\ pc' = "iter"
                  /\ UNCHANGED <<out, exit, failures>>
    /\ UNCHANGED <<arguments, llm_model, auto_continue_count,
                   accumulated_content, produced, trigger, overloads, exhausted,
                   returned>>
    /\ UNCHANGED elsewhere

LoopExit ==
    /\ pc = "while"
    /\ ~LoopCondition
    /\ pc' = "after"
    /\ exit' = "guard"
    /\ UNCHANGED <<arguments, llm_model, auto_continue, auto_continue_count,
                   accumulated_content, out, produced, runs, contRuns, trigger,
                   prepared, overloads, exhausted, failures, returned>>
    /\ UNCHANGED elsewhere

(***************************************************************************)
(* The except clause around the chunk loop.                                *)
(***************************************************************************)
\* Faulty variant: the overload branch forgets to set auto_continue again.
ExceptionHandler_NoRetry(message) ==
    IF IsOverloaded(message)
    THEN /\ llm_model' = FallbackModel(llm_model)
         /\ pc' = "while"
         /\ trigger' = "overload"
         /\ UNCHANGED <<out, exit, auto_continue>>
    ELSE /\ Yield(ErrorRecord("Error in thread processing"))
         /\ pc' = "done"
         /\ exit' = "return"
         /\ UNCHANGED <<llm_model, auto_continue, trigger>>

\* Faulty variant: after the error chunk the generator goes on to the loop head.
ExceptionHandler_NoReturn(message) ==
    IF IsOverloaded(message)
    THEN /\ llm_model' = FallbackModel(llm_model)
         /\ auto_continue' = TRUE
         /\ pc' = "while"
         /\ trigger' = "overload"
         /\ UNCHANGED <<out, exit>>
    ELSE /\ Yield(ErrorRecord("Error in thread processing"))
         /\ pc' = "while"
         /\ UNCHANGED <<llm_model, auto_continue, trigger, exit>>

ExceptionHandler(message) ==
    IF IsOverloaded(message)
    THEN /\ llm_model' = FallbackModel(llm_model)
         /\ auto_continue' = TRUE
         /\ pc' = "while"
         /\ trigger' = "overload"
         /\ UNCHANGED <<out, exit>>
    ELSE /\ Yield(ErrorRecord("Error in thread processing"))
         /\ pc' = "done"
         /\ exit' = "return"
         /\ UNCHANGED <<llm_model, auto_continue, trigger>>

(***************************************************************************)
(* The body of the chunk loop.                                             *)
(***************************************************************************)
\* Faulty variant: the continuation signal is also yielded.
Continuation_Yields(chunk) ==
    /\ auto_continue' = TRUE
    /\ auto_continue_count' = auto_continue_count + 1
    /\ Yield(chunk)
    /\ UNCHANGED <<pc, exit, llm_model, trigger>>

Continuation(chunk) ==
    /\ auto_continue' = TRUE
    /\ auto_continue_count' = auto_continue_count + 1
    /\ UNCHANGED <<out, pc, exit, llm_model, trigger>>

Forward(chunk) ==
    /\ Yield(chunk)
    /\ UNCHANGED <<auto_continue, auto_continue_count, pc, exit, llm_model, trigger>>

\* Faulty variant: the xml_tool_limit_reached chunk is swallowed like a continuation.
XmlToolLimit_Suppressed(chunk) ==
    /\ auto_continue' = FALSE
    /\ UNCHANGED <<out, auto_continue_count, pc, exit, llm_model, trigger>>

XmlToolLimit(chunk) ==
    /\ auto_continue' = FALSE
    /\ Yield(chunk)
    /\ UNCHANGED <<auto_continue_count, pc, exit, llm_model, trigger>>

HandleChunk(chunk) ==
    IF chunk.type = "finish"
    THEN IF chunk.finish_reason = "tool_calls"
         THEN IF native_max_auto_continues > 0
              THEN Continuation(chunk)
              ELSE Forward(chunk)
         ELSE IF chunk.finish_reason = "xml_tool_limit_reached"
              THEN XmlToolLimit(chunk)
              ELSE Forward(chunk)
    ELSE IF chunk.type = "status"
         THEN IF ~JsonLoads(chunk.content).ok
              THEN /\ ExceptionHandler("json")
                   /\ UNCHANGED auto_continue_count
              ELSE IF JsonLoads(chunk.content).finish_reason = "length"
                   THEN Continuation(chunk)
                   ELSE Forward(chunk)
         ELSE Forward(chunk)

ConsumeChunk ==
    /\ pc = "iter"
    /\ Len(produced) < MaxChunks
    /\ \E c \in InterpreterChunks :
          /\ produced' = Append(produced, NextChunk(c))
          /\ accumulated_content' = Accumulate(c)
          /\ HandleChunk(NextChunk(c))
          /\ failures' = IF c.type = "status" /\ ~JsonLoads(c.content).ok
                         THEN failures + 1
                         ELSE failures
    /\ UNCHANGED <<arguments, runs, contRuns, prepared, overloads, exhausted,
                   returned>>
    /\ UNCHANGED elsewhere

\* The stream is exhausted: "if not auto_continue: break", else loop again.
StreamEnd ==
    /\ pc = "iter"
    /\ exhausted' = exhausted \cup {runs}
    /\ IF ~auto_continue
       THEN /\ pc' = "after"
            /\ exit' = "break"
            /\ trigger' = trigger
       ELSE /\ pc' = "while"
            /\ exit' = exit
            /\ trigger' = "signal"
    /\ UNCHANGED <<arguments, llm_model, auto_continue, auto_continue_count,
                   accumulated_content, out, produced, runs, contRuns, prepared,
                   overloads, failures, returned>>
    /\ UNCHANGED elsewhere

\* Pulling the next chunk raises.
StreamRaises ==
    /\ pc = "iter"
    /\ \E message \in { OverloadMarker, "other" } :
          /\ IsOverloaded(message) => overloads < MaxOverloads
          /\ overloads' = IF IsOverloaded(message) THEN overloads + 1 ELSE overloads
          /\ failures' = IF IsOverloaded(message) THEN failures ELSE failures + 1
          /\ ExceptionHandler(message)
    /\ UNCHANGED <<arguments, auto_continue_count, accumulated_content, produced,
                   runs, contRuns, prepared, exhausted, returned>>
    /\ UNCHANGED elsewhere

(***************************************************************************)
(* After the loop: the notice that the ceiling was reached.                *)
(***************************************************************************)
\* Faulty variant: the notice is emitted whenever the counter is at the ceiling.
LimitReached_IgnoresFlag == auto_continue_count >= native_max_auto_continues

LimitReached ==
    auto_continue /\ auto_continue_count >= native_max_auto_continues

AfterLoop ==
    /\ pc = "after"
    /\ IF LimitReached THEN Yield(LimitChunk) ELSE out' = out
    /\ pc' = "done"
    /\ UNCHANGED <<arguments, llm_model, auto_continue, auto_continue_count,
                   accumulated_content, produced, runs, contRuns, trigger, exit,
                   prepared, overloads, exhausted, failures, returned>>
    /\ UNCHANGED elsewhere

Next ==
    \/ StartDirect
    \/ StartWrapper
    \/ DirectChunk
    \/ DirectEnd
    \/ DirectRaises
    \/ LoopRunOnce
    \/ LoopExit
    \/ ConsumeChunk
    \/ StreamEnd
    \/ StreamRaises
    \/ AfterLoop

Spec == Init /\ [][Next]_vars

(***************************************************************************)
(* Vocabulary of the properties.                                           *)
(***************************************************************************)
Wrapped == returned = "wrapper"

Last(seq) == seq[Len(seq)]

FromInterpreter(c) == c.run > 0

IsToolCallsFinish(c) ==
    FromInterpreter(c) /\ c.type = "finish" /\ c.finish_reason = "tool_calls"

IsXmlLimitFinish(c) ==
    FromInterpreter(c) /\ c.type = "finish"
      /\ c.finish_reason = "xml_tool_limit_reached"

IsLengthStatus(c) ==
    FromInterpreter(c) /\ c.type = "status" /\ c.content = JsonLength

IsErrorChunk(c) == c.type = "status" /\ c.status = "error"

IsLimitNotice(c) == c.run = 0 /\ c.type = "content"

Count(seq, P(_)) == Len(SelectSeq(seq, P))

(***************************************************************************)
(* C1: with a ceiling k >= 1, at most k invocations of _run_once are       *)
(* triggered by a continuation signal, whatever the streams contain.       *)
(***************************************************************************)
C1_ContinuationsWithinCeiling ==
    native_max_auto_continues >= 1 => contRuns <= native_max_auto_continues

C1_Witness ==
    /\ native_max_auto_continues = 2
    /\ contRuns = 1
    /\ auto_continue_count = 2
    /\ pc = "done"
    /\ exit = "guard"

(***************************************************************************)
(* C2: when the loop is left because the counter reached the ceiling with  *)
(* the flag still set, exactly one informational content chunk is emitted, *)
(* as the last chunk, and the loop is never entered again; after a natural *)
(* stop or an error the informational chunk is never emitted.              *)
(***************************************************************************)
C2_LimitNotice ==
    /\ (pc = "done" /\ exit = "guard" /\ auto_continue
          /\ auto_continue_count >= native_max_auto_continues)
          => /\ Len(out) >= 1
             /\ IsLimitNotice(Last(out))
             /\ Count(out, IsLimitNotice) = 1
    /\ (Wrapped /\ exit # "none") => pc \in { "after", "done" }
    /\ exit \in { "break", "return" } => Count(out, IsLimitNotice) = 0

C2_Witness ==
    /\ pc = "done"
    /\ exit = "guard"
    /\ auto_continue
    /\ auto_continue_count >= native_max_auto_continues
    /\ Len(out) >= 2
    /\ IsLimitNotice(Last(out))

(***************************************************************************)
(* C3: with a ceiling of 0, run_thread performs exactly one _run_once and  *)
(* returns its result itself: the caller sees every chunk of the stream,   *)
(* continuation signals included, in the order produced.                   *)
(***************************************************************************)
C3_CeilingZeroRunsOnce ==
    native_max_auto_continues = 0 =>
        /\ runs <= 1
        /\ pc # "start" => runs = 1
        /\ returned \in { "none", "generator", "error_record" }
        /\ out = produced

C3_Witness ==
    /\ native_max_auto_continues = 0
    /\ pc = "done"
    /\ runs = 1
    /\ \E i \in DOMAIN out : IsToolCallsFinish(out[i])
    /\ \E i \in DOMAIN out : IsLengthStatus(out[i])

(***************************************************************************)
(* Vocabulary of the properties about continuation signals.                *)
(***************************************************************************)
IsSignal(c) == IsToolCallsFinish(c) \/ IsLengthStatus(c)

Forwarded(P(_)) == \E i \in DOMAIN out : P(out[i])

Contains(r, P(_)) == \E i \in DOMAIN StreamOf(r) : P(StreamOf(r)[i])

\* Stream r holds a chunk satisfying P with no xml_tool_limit_reached finish
\* chunk after it.
StandsIn(r, P(_)) ==
    \E i \in DOMAIN StreamOf(r) :
        /\ P(StreamOf(r)[i])
        /\ \A j \in DOMAIN StreamOf(r) : j > i => ~IsXmlLimitFinish(StreamOf(r)[j])

\* The state right after _run_once returned a stream.
JustRequested == pc = "iter" /\ StreamOf(runs) = <<>>

C5_Original ==
    Wrapped =>
        /\ ~Forwarded(IsLengthStatus)
        /\ auto_continue_count = Count(produced, IsSignal)
        /\ (pc = "done" /\ auto_continue_count < native_max_auto_continues)
              => ~Contains(runs, IsLengthStatus)

(***************************************************************************)
(* C5 as amended: a length status chunk is handled like a tool_calls       *)
(* finish chunk: it is not forwarded and raises the counter by one; if its *)
(* stream is then consumed to the end with no later xml_tool_limit_reached *)
(* finish chunk and the counter is below the ceiling, the loop head admits *)
(* a further _run_once.                                                    *)
(***************************************************************************)
C5_Amended ==
    Wrapped =>
        /\ ~Forwarded(IsLengthStatus)
        /\ auto_continue_count = Count(produced, IsSignal)
        /\ (runs \in exhausted /\ auto_continue_count < native_max_auto_continues
              /\ StandsIn(runs, IsLengthStatus))
              => pc = "while" /\ LoopCondition

C5_Witness ==
    /\ Wrapped
    /\ pc = "iter"
    /\ runs = 2
    /\ contRuns = 1
    /\ StreamOf(1) # <<>>
    /\ \A i \in DOMAIN StreamOf(1) : IsLengthStatus(StreamOf(1)[i])

(***************************************************************************)
(* C6 as stated: an xml_tool_limit_reached finish chunk is forwarded, and  *)
(* once the stream that contained it is exhausted no further _run_once is  *)
(* performed, whatever else that stream contained.                         *)
(***************************************************************************)
C6_Original ==
    Wrapped =>
        \A i \in DOMAIN produced :
            IsXmlLimitFinish(produced[i]) =>
                /\ \E j \in DOMAIN out : out[j] = produced[i]
                /\ produced[i].run \in exhausted => runs = produced[i].run

(***************************************************************************)
(* C7 as stated: an overload exception yields no chunk, changes the model  *)
(* to the fallback route (dated suffix removed, prefix added), leaves the  *)
(* counter unchanged and is followed by _run_once again.                   *)
(***************************************************************************)
OverloadHandled == overloads' = overloads + 1

ReroutedFrom(name) ==
    <<FallbackPrefix>> \o SelectSeq(name, LAMBDA part : part # DatedSuffix)

C7_Original ==
    [][OverloadHandled =>
          /\ out' = out
          /\ llm_model' = ReroutedFrom(llm_model)
          /\ auto_continue_count' = auto_continue_count
          /\ pc' = "while"
          /\ LoopCondition']_vars

(***************************************************************************)
(* C7 as amended: an overload exception yields no chunk, changes the model *)
(* to the fallback route and leaves the counter unchanged; _run_once is    *)
(* performed again for the same iteration unless continuation signals of   *)
(* the failed stream already raised the counter to the ceiling, and then   *)
(* the run ends with the informational chunk.                              *)
(***************************************************************************)
C7_Amended ==
    /\ [][OverloadHandled =>
            /\ out' = out
            /\ llm_model' = ReroutedFrom(llm_model)
            /\ auto_continue_count' = auto_continue_count
            /\ pc' = "while"
            /\ auto_continue'
            /\ LoopCondition' <=> auto_continue_count < native_max_auto_continues]_vars
    /\ []((pc = "done" /\ trigger = "overload" /\ exit = "guard")
            => (Len(out) >= 1 /\ IsLimitNotice(Last(out))))

C7_Witness ==
    /\ Wrapped
    /\ pc = "iter"
    /\ trigger = "overload"
    /\ runs = 2
    /\ auto_continue_count = 0
    /\ llm_model = <<FallbackPrefix, "anthropic/claude-sonnet-4">>

(***************************************************************************)
(* C8: an error record from _run_once or an exception other than overload  *)
(* makes the driver forward exactly one status/error chunk and stop: it is *)
(* the last chunk, nothing follows, even when a continuation signal was    *)
(* seen earlier in the same stream.                                        *)
(***************************************************************************)
C8_ErrorStops ==
    Wrapped =>
        /\ failures >= 1 =>
              /\ failures = 1
              /\ pc = "done"
              /\ exit = "return"
              /\ Len(out) >= 1
              /\ IsErrorChunk(Last(out))
              /\ Count(out, IsErrorChunk) = 1
              /\ Count(out, IsLimitNotice) = 0
        /\ failures = 0 => Count(out, IsErrorChunk) = 0

C8_Witness ==
    /\ Wrapped
    /\ failures = 1
    /\ pc = "done"
    /\ auto_continue
    /\ auto_continue_count < native_max_auto_continues
    /\ Contains(runs, IsSignal)
    /\ IsErrorChunk(Last(out))

(***************************************************************************)
(* C9 as stated, for the runs most favourable to it (no stream raises and  *)
(* every stream ends with a finish chunk): in a completed run the last     *)
(* chunk observed is a finish chunk or a status/error chunk.               *)
(***************************************************************************)
EveryStreamEndsWithFinish ==
    \A r \in exhausted : StreamOf(r) # <<>> /\ Last(StreamOf(r)).type = "finish"

NoStreamRaised == exhausted = 1..runs

C9_Original ==
    (Wrapped /\ pc = "done" /\ NoStreamRaised /\ EveryStreamEndsWithFinish) =>
        /\ Len(out) >= 1
        /\ Last(out).type = "finish" \/ IsErrorChunk(Last(out))

(***************************************************************************)
(* C9 as amended: in a completed run in which every stream consumed to its *)
(* end ends with a finish chunk, the last chunk observed is a finish       *)
(* chunk, a status/error chunk or, when the run stopped at the ceiling,    *)
(* the informational content chunk.                                        *)
(***************************************************************************)
C9_Amended ==
    (Wrapped /\ pc = "done" /\ EveryStreamEndsWithFinish) =>
        /\ Len(out) >= 1
        /\ \/ Last(out).type = "finish"
           \/ IsErrorChunk(Last(out))
           \/ /\ IsLimitNotice(Last(out))
              /\ exit = "guard"
              /\ auto_continue_count >= native_max_auto_continues

C9_Witness ==
    /\ Wrapped
    /\ pc = "done"
    /\ EveryStreamEndsWithFinish
    /\ exhausted # {}
    /\ IsLimitNotice(Last(out))

TimesForwarded(c) == Count(out, LAMBDA o : o = c)

C11_Original ==
    Wrapped =>
        \A n \in DOMAIN produced :
            TimesForwarded(produced[n]) = IF IsSignal(produced[n]) THEN 0 ELSE 1

(***************************************************************************)
(* One _run_once in detail (lines 500-708).  The token counter, the cache  *)
(* annotator, the compressors, the transport and the interpreter are       *)
(* collaborators: each call returns or raises, and what the annotator and  *)
(* the compressors return is any rewriting of their input.                 *)
(***************************************************************************)
MaxHistory == 2

PreCheckThreshold == 80000

LargeWindow == 200000

LargeWindowLimit == 168000

MediumWindow == 100000

MediumHeadroom == 20000

SmallHeadroom == 10000

OmissionMargin == 10000

\* The sizes the token counter gives to the contents the model uses.
TokensOf(part) ==
    CASE part = "prompt"  -> 50
      [] part = "old"     -> 100
      [] part = "q"       -> 400
      [] part = "big"     -> 79950
      [] part = "huge"    -> 100000
      [] part = "text"    -> 10
      [] part = "summary" -> 20
      [] OTHER            -> 0

RECURSIVE ContentTokens(_)
ContentTokens(content) ==
    IF content = <<>> THEN 0
    ELSE TokensOf(Head(content)) + ContentTokens(Tail(content))

RECURSIVE token_counter(_)
token_counter(msgs) ==
    IF msgs = <<>> THEN 0
    ELSE ContentTokens(Head(msgs).content) + token_counter(Tail(msgs))

StoredMessages ==
    { Msg("system", <<"old">>), Msg("user", <<"q">>), Msg("user", <<"big">>),
      Msg("assistant", <<"huge">>) }

Histories == UNION { [1..n -> StoredMessages] : n \in 0..MaxHistory }

\* Context windows: one below the tiers' edges, one on each edge (the safe
\* limit of the first edge is exactly the size of a request), one far above.
Windows == { 32000, 100000, 200000, 1000000 }

\* The iteration counter and the accumulated content _run_once may find.
Continuations ==
    { [count |-> 0, content |-> <<>>], [count |-> 0, content |-> <<"text">>],
      [count |-> 1, content |-> <<>>], [count |-> 1, content |-> <<"text">>] }

\* Faulty variant: a window on the edge of a tier falls into the tier below.
SafeLimit_StrictTiers(w) ==
    IF w > LargeWindow THEN LargeWindowLimit
    ELSE IF w > MediumWindow THEN w - MediumHeadroom
    ELSE w - SmallHeadroom

\* The safe limit of lines 575-580.
SafeLimit(w) ==
    IF w >= LargeWindow THEN LargeWindowLimit
    ELSE IF w >= MediumWindow THEN w - MediumHeadroom
    ELSE w - SmallHeadroom

\* Cache annotation marks a message and leaves its role and content alone.
Mark(m) == [role |-> m.role, content |-> m.content, cache_control |-> TRUE]

Unmark(m) == Msg(m.role, m.content)

Unmarked(msgs) == [i \in DOMAIN msgs |-> Unmark(msgs[i])]

ExtraSystem == Msg("system", <<"summary">>)

Drop(msgs, i) == SubSeq(msgs, 1, i - 1) \o SubSeq(msgs, i + 1, Len(msgs))

Summarised(msgs) ==
    [i \in DOMAIN msgs |->
        IF msgs[i].role = "system" THEN msgs[i]
        ELSE [msgs[i] EXCEPT !.content = <<"summary">>]]

\* What apply_cache_to_messages followed by validate_cache_blocks may return.
AnnotatorOutputs(msgs) ==
    { msgs,
      [msgs EXCEPT ![1] = Mark(msgs[1])],
      [i \in DOMAIN msgs |-> Mark(msgs[i])],
      <<ExtraSystem>> \o msgs,
      msgs \o <<ExtraSystem>> }

\* The annotator's contract: nothing but cache marks changes.
AnnotatorContract(input, output) == Unmarked(output) = Unmarked(input)

\* What compress_messages and compress_messages_by_omitting_messages may return.
CompressorOutputs(msgs) ==
    { msgs, Summarised(msgs), <<ExtraSystem>> \o msgs, msgs \o <<ExtraSystem>> }
      \cup { Drop(msgs, i) : i \in DOMAIN msgs }

NoResult == Chunk("none", "none", "none", "none", "none")

ResponseGenerator == Chunk("generator", "none", "none", "none", "none")

NoTools == [given |-> FALSE, schemas |-> <<>>]

NotSent ==
    [sent |-> FALSE, messages |-> <<>>, tool_choice |-> "unset", tools |-> NoTools]

CompressorCall(fn, target) == [fn |-> fn, max_tokens |-> target]

\* The driver is between two iterations while one _run_once is looked at.
DriverWaits ==
    /\ native_max_auto_continues = MaxCeiling
    /\ llm_model = <<"gpt-5">>
    /\ auto_continue = FALSE
    /\ pc = "while"
    /\ out = <<>>
    /\ produced = <<>>
    /\ runs = 0
    /\ contRuns = 0
    /\ trigger = "start"
    /\ exit = "none"
    /\ prepared = <<>>
    /\ overloads = 0
    /\ exhausted = {}
    /\ failures = 0
    /\ returned = "wrapper"

\* _run_once has been called and has not run yet.
RunOnceCalled ==
    /\ step = "load"
    /\ messages = <<>>
    /\ token_count = 0
    /\ prepared_messages = <<>>
    /\ final_token_count = 0
    /\ safe_limit = 0
    /\ compressed_token_count = 0
    /\ calls = <<>>
    /\ request = NotSent
    /\ result = NoResult
    /\ swallowed = {}
    /\ loaded = "none"
    /\ annotation = "none"

InitRunOnce ==
    /\ DriverWaits
    /\ StoreIdle
    /\ FetchIdle
    /\ CallerDefaults
    /\ PromptIdle
    /\ history \in Histories
    /\ \E c \in Continuations :
          /\ auto_continue_count = c.count
          /\ accumulated_content = c.content
    /\ context_window \in Windows
    /\ RunOnceCalled

\* The except clause of lines 701-708: the exception becomes the error record.
ReturnError(message) ==
    /\ result' = ErrorRecord(message)
    /\ step' = "done"

\* An inner except clause that only logs: lines 530-531 and 599-600.
Swallow(what) == swallowed' = swallowed \cup {what}

\* Lines 507-520: load the history and drop its system messages.
LoadHistory ==
    /\ step = "load"
    /\ \E outcome \in { "ok", "store_failed", "client_error" } :
          /\ loaded' = outcome
          /\ IF outcome = "client_error"
             THEN /\ ReturnError(outcome)
                  /\ UNCHANGED messages
             ELSE /\ messages' = FilterSystem(get_llm_messages(outcome))
                  /\ step' = "count"
                  /\ UNCHANGED result
    /\ UNCHANGED <<outside, context_window, token_count, prepared_messages,
                   final_token_count, safe_limit, compressed_token_count, calls,
                   request, swallowed, annotation>>

\* Lines 523-553: the pre-check count, then the prepared request.
CountTokens ==
    /\ step = "count"
    /\ \E raises \in BOOLEAN :
          IF raises
          THEN /\ Swallow("token_count")
               /\ UNCHANGED token_count
          ELSE /\ token_count' = token_counter(<<working_system_prompt>> \o messages)
               /\ UNCHANGED swallowed
    /\ prepared_messages' = PreparedMessages(messages)
    /\ step' = "annotate"
    /\ UNCHANGED <<outside, context_window, messages, final_token_count,
                   safe_limit, compressed_token_count, calls, request, result,
                   loaded, annotation>>

\* Faulty variant: a count on the threshold is still annotated.
BelowThreshold_Inclusive(count) == count <= PreCheckThreshold

\* The test of line 560.
BelowThreshold(count) == count < PreCheckThreshold

\* Lines 560-564: cache annotation below the pre-check threshold.
Annotate ==
    /\ step = "annotate"
    /\ IF BelowThreshold(token_count)
       THEN \/ /\ ReturnError("annotation")
               /\ annotation' = "raised"
               /\ UNCHANGED prepared_messages
            \/ /\ \E output \in AnnotatorOutputs(prepared_messages) :
                     /\ prepared_messages' = output
                     /\ annotation' = IF AnnotatorContract(prepared_messages, output)
                                      THEN "marked"
                                      ELSE "other"
               /\ step' = "budget"
               /\ UNCHANGED result
       ELSE /\ annotation' = "skipped"
            /\ step' = "budget"
            /\ UNCHANGED <<prepared_messages, result>>
    /\ UNCHANGED <<outside, context_window, messages, token_count,
                   final_token_count, safe_limit, compressed_token_count, calls,
                   request, swallowed, loaded>>

\* Faulty variant: a count equal to the limit is treated as over it.
OverLimit_Inclusive(count, limit) == count >= limit

\* The tests of lines 582 and 592.
OverLimit(count, limit) == count > limit

\* Lines 566-582: the count of the prepared request against the safe limit.
BudgetCheck ==
    /\ step = "budget"
    /\ \E outcome \in { "ok", "counter_raises", "window_raises" } :
          IF outcome = "counter_raises"
          THEN /\ Swallow("final_token_count")
               /\ step' = "collapse"
               /\ UNCHANGED <<final_token_count, safe_limit>>
          ELSE /\ final_token_count' = token_counter(prepared_messages)
               /\ IF outcome = "window_raises"
                  THEN /\ Swallow("context_window")
                       /\ step' = "collapse"
                       /\ UNCHANGED safe_limit
                  ELSE /\ safe_limit' = SafeLimit(context_window)
                       /\ step' = IF OverLimit(final_token_count', safe_limit')
                                  THEN "compress"
                                  ELSE "collapse"
                       /\ UNCHANGED swallowed
    /\ UNCHANGED <<outside, context_window, messages, token_count,
                   prepared_messages, compressed_token_count, calls, request,
                   result, loaded, annotation>>

\* Lines 582-592: the primary compression and the count of its output.
PrimaryCompression ==
    /\ step = "compress"
    /\ calls' = Append(calls, CompressorCall("compress_messages", safe_limit))
    /\ \/ /\ Swallow("compress_messages")
          /\ step' = "collapse"
          /\ UNCHANGED <<prepared_messages, compressed_token_count>>
       \/ \E output \in CompressorOutputs(prepared_messages) :
             /\ prepared_messages' = output
             /\ \/ /\ Swallow("compressed_token_count")
                   /\ step' = "collapse"
                   /\ UNCHANGED compressed_token_count
                \/ /\ compressed_token_count' = token_counter(output)
                   /\ step' = IF OverLimit(compressed_token_count', safe_limit)
                              THEN "omit"
                              ELSE "collapse"
                   /\ UNCHANGED swallowed
    /\ UNCHANGED <<outside, context_window, messages, token_count,
                   final_token_count, safe_limit, request, result, loaded,
                   annotation>>

\* Faulty variant: the escalation is not carried out.
Omission_Skipped ==
    /\ step = "omit"
    /\ step' = "collapse"
    /\ UNCHANGED <<outside, context_window, messages, token_count,
                   prepared_messages, final_token_count, safe_limit,
                   compressed_token_count, calls, request, result, swallowed,
                   loaded, annotation>>

\* Lines 592-598: the escalation to message omission.
Omission ==
    /\ step = "omit"
    /\ calls' = Append(calls, CompressorCall("compress_messages_by_omitting_messages",
                                             safe_limit - OmissionMargin))
    /\ \/ /\ Swallow("compress_messages_by_omitting_messages")
          /\ UNCHANGED prepared_messages
       \/ /\ prepared_messages' \in CompressorOutputs(prepared_messages)
          /\ UNCHANGED swallowed
    /\ step' = "collapse"
    /\ UNCHANGED <<outside, context_window, messages, token_count,
                   final_token_count, safe_limit, compressed_token_count,
                   request, result, loaded, annotation>>

\* Faulty variant: the surplus system messages are left in place.
KeepFirstSystem_KeepsAll(msgs) == msgs

\* Lines 605-614: all system messages but the first are removed.
KeepFirstSystem(msgs) ==
    LET Kept(i) == msgs[i].role = "system" =>
                      \A j \in 1..(i - 1) : msgs[j].role # "system"
        kept == SelectSeq([i \in DOMAIN msgs |-> i], Kept)
    IN  [k \in DOMAIN kept |-> msgs[kept[k]]]

system_count(msgs) == Len(SelectSeq(msgs, LAMBDA m : m.role = "system"))

CollapseSystem ==
    /\ step = "collapse"
    /\ prepared_messages' = IF system_count(prepared_messages) > 1
                            THEN KeepFirstSystem(prepared_messages)
                            ELSE prepared_messages
    /\ step' = "transport"
    /\ UNCHANGED <<outside, context_window, messages, token_count,
                   final_token_count, safe_limit, compressed_token_count, calls,
                   request, result, swallowed, loaded, annotation>>

\* tool_registry.get_openapi_schemas()
RegisteredSchemas == <<"schema">>

Tools(schemas) == [given |-> TRUE, schemas |-> schemas]

\* Lines 555-557: the schemas are resolved only for native tool calling.
openapi_tool_schemas ==
    IF native_tool_calling THEN Tools(RegisteredSchemas) ELSE NoTools

\* Faulty variant: the caller's preference is passed whatever the configuration.
ToolChoicePassed_CallersAlways == tool_choice

\* Line 651.
ToolChoicePassed == IF native_tool_calling THEN tool_choice ELSE "none"

\* Lines 645-660: the transport call; its exception is raised again.
CallTransport ==
    /\ step = "transport"
    /\ request' = [sent |-> TRUE, messages |-> prepared_messages,
                   tool_choice |-> ToolChoicePassed,
                   tools |-> openapi_tool_schemas]
    /\ \E outcome \in { "ok", "transport_error", "transport_overloaded" } :
          IF outcome = "ok"
          THEN /\ step' = "interpret"
               /\ UNCHANGED result
          ELSE ReturnError(RunOnceMessage(outcome))
    /\ UNCHANGED <<outside, context_window, messages, token_count,
                   prepared_messages, final_token_count, safe_limit,
                   compressed_token_count, calls, swallowed, loaded, annotation>>

\* Lines 662-699: the interpreter's generator is returned.
HandOver ==
    /\ step = "interpret"
    /\ \/ /\ result' = ResponseGenerator
          /\ step' = "done"
       \/ ReturnError("interpreter")
    /\ UNCHANGED <<outside, context_window, messages, token_count,
                   prepared_messages, final_token_count, safe_limit,
                   compressed_token_count, calls, request, swallowed, loaded,
                   annotation>>

NextRunOnce ==
    \/ LoadHistory
    \/ CountTokens
    \/ Annotate
    \/ BudgetCheck
    \/ PrimaryCompression
    \/ Omission
    \/ CollapseSystem
    \/ CallTransport
    \/ HandOver

SpecRunOnce == InitRunOnce /\ [][NextRunOnce]_vars

(***************************************************************************)
(* One _run_once for every combination of what the caller of run_thread    *)
(* may pass: the tool choice, the tool-calling mode of the processor       *)
(* configuration and a temporary message.  The model's window is the       *)
(* largest tier's edge; the iteration is the first one or a later one.     *)
(***************************************************************************)
ToolChoices == { "auto", "required", "none" }

TemporaryMessages == { NoMessage, Msg("user", <<"temp">>) }

CallerContinuations ==
    { [count |-> 0, content |-> <<>>], [count |-> 1, content |-> <<"text">>] }

InitCaller ==
    /\ DriverWaits
    /\ StoreIdle
    /\ FetchIdle
    /\ PromptIdle
    /\ tool_choice \in ToolChoices
    /\ native_tool_calling \in BOOLEAN
    /\ temporary_message \in TemporaryMessages
    /\ history \in Histories
    /\ \E c \in CallerContinuations :
          /\ auto_continue_count = c.count
          /\ accumulated_content = c.content
    \* line 721: the temporary message is passed on the first iteration only
    /\ temp_msg = IF auto_continue_count = 0 THEN temporary_message ELSE NoMessage
    /\ context_window = LargeWindow
    /\ RunOnceCalled

SpecCaller == InitCaller /\ [][NextRunOnce]_vars

(***************************************************************************)
(* Vocabulary of the properties about one _run_once.                       *)
(***************************************************************************)
Sent == request.sent

Returned == result # NoResult

Called(fn) == \E i \in DOMAIN calls : calls[i].fn = fn

(***************************************************************************)
(* C12: whatever the stored history holds (no, one or many system          *)
(* messages) and whatever the cache annotator and the compressors return,  *)
(* the request handed to the transport holds at most one system message.   *)
(***************************************************************************)
C12_AtMostOneSystem == Sent => system_count(request.messages) <= 1

C12_Witness ==
    /\ Sent
    /\ system_count(history) >= 1
    /\ annotation = "other"
    /\ Called("compress_messages_by_omitting_messages")
    /\ system_count(request.messages) = 1
    /\ Len(request.messages) >= 2
    /\ request.messages[1] = ExtraSystem

(***************************************************************************)
(* C13: when the token count is within the safe limit, the request handed  *)
(* to the transport is, cache marks aside, the engine's system prompt,     *)
(* then the loaded history without its system messages in stored order,    *)
(* then one synthetic assistant message holding the accumulated content    *)
(* exactly when the iteration counter is above 0 and that content is not   *)
(* empty; on iteration 0 nothing follows the history.  The history is      *)
(* loaded and the annotator keeps to its contract.                         *)
(***************************************************************************)
ExpectedRequest ==
    <<working_system_prompt>>
      \o SelectSeq(history, LAMBDA m : m.role # "system")
      \o (IF auto_continue_count > 0 /\ accumulated_content # <<>>
          THEN <<Msg("assistant", accumulated_content)>>
          ELSE <<>>)

WithinSafeLimit == token_counter(ExpectedRequest) <= SafeLimit(context_window)

LimitDerived == safe_limit # 0

C14_Original ==
    LimitDerived =>
        safe_limit = IF context_window >= 200000 THEN context_window - 32000
                     ELSE IF context_window >= 100000 THEN context_window - 20000
                     ELSE context_window - 10000

(***************************************************************************)
(* C14 as amended: for every context window w the safe limit is the fixed  *)
(* value 168,000 when w >= 200,000 (which is w - 32,000 only for           *)
(* w = 200,000), w - 20,000 when 100,000 <= w < 200,000 and w - 10,000     *)
(* when w < 100,000.                                                       *)
(***************************************************************************)
C14_Amended ==
    LimitDerived =>
        safe_limit = IF context_window >= 200000 THEN 168000
                     ELSE IF context_window >= 100000 THEN context_window - 20000
                     ELSE context_window - 10000

C14_Witness ==
    /\ LimitDerived
    /\ context_window = 1000000
    /\ safe_limit = 168000
    /\ Sent

(***************************************************************************)
(* C15: compression escalates in a fixed order.  The primary compressor is *)
(* invoked, with the safe limit as target, exactly when the count of the   *)
(* prepared request is strictly above the safe limit; the omission         *)
(* compressor is invoked, with the safe limit minus 10,000 as target,      *)
(* exactly when the count after the primary pass is still strictly above   *)
(* the safe limit; omission never comes without a primary pass before it,  *)
(* and neither is invoked for a count at or below the safe limit.  The     *)
(* counts are those the token counter returned.                            *)
(***************************************************************************)
PrimaryCall == [fn |-> "compress_messages", max_tokens |-> safe_limit]

OmissionCall ==
    [fn |-> "compress_messages_by_omitting_messages",
     max_tokens |-> safe_limit - 10000]

C15_EscalationOrder ==
    /\ calls \in { <<>>, <<PrimaryCall>>, <<PrimaryCall, OmissionCall>> }
    /\ calls # <<>> => LimitDerived /\ final_token_count > safe_limit
    /\ (LimitDerived /\ final_token_count > safe_limit /\ step # "compress")
          => calls # <<>>
    /\ Len(calls) = 2 => compressed_token_count > safe_limit
    /\ (compressed_token_count > safe_limit /\ step # "omit") => Len(calls) = 2
    /\ (LimitDerived /\ final_token_count <= safe_limit) => calls = <<>>

C15_Witness ==
    /\ Sent
    /\ context_window = 200000
    /\ final_token_count = 180000
    /\ calls = <<CompressorCall("compress_messages", 168000),
                 CompressorCall("compress_messages_by_omitting_messages", 158000)>>

\* A request whose count equals the safe limit goes out uncompressed.
C15_WitnessAtLimit ==
    /\ Sent
    /\ LimitDerived
    /\ final_token_count = safe_limit
    /\ calls = <<>>

(***************************************************************************)
(* C16 as stated, for the runs most favourable to it (no count and no      *)
(* compressor raises, and no pass returns more than it was given): when    *)
(* the count of the prepared request exceeds the safe limit, the request   *)
(* handed to the transport has a counted size of at most the safe limit,   *)
(* or else is the output of the omission pass and strictly smaller than    *)
(* that pass's input.                                                      *)
(***************************************************************************)
RequestSize == token_counter(request.messages)

OverBudget == LimitDerived /\ final_token_count > safe_limit

NothingSwallowed == swallowed = {}

StepFailed ==
    \/ loaded \in { "store_failed", "client_error" }
    \/ swallowed # {}
    \/ IsErrorChunk(result)

C17_Original ==
    step = "done" =>
        /\ result = ResponseGenerator \/ IsErrorChunk(result)
        /\ StepFailed => IsErrorChunk(result)

(***************************************************************************)
(* C21: when native tool calling is disabled in the processor              *)
(* configuration, every transport call is issued with tool choice none and *)
(* with no tool schemas, whatever tool_choice the caller passed; when it   *)
(* is enabled, the caller's tool_choice is passed through unchanged.       *)
(***************************************************************************)
C21_ToolChoice ==
    Sent =>
        IF native_tool_calling
        THEN request.tool_choice = tool_choice
        ELSE request.tool_choice = "none" /\ ~request.tools.given

C21_Witness ==
    /\ Sent
    /\ ~native_tool_calling
    /\ tool_choice = "required"
    /\ request.tool_choice = "none"
    /\ request.tools = NoTools

(***************************************************************************)
(* add_message (lines 127-221): one insert into the messages table and,    *)
(* for an assistant_response_end record, the deduction of its usage.  The  *)
(* store and the billing integration are collaborators: the insert returns *)
(* the row, returns no message id, or raises; the lookup of the thread's   *)
(* owner returns or raises; deduct_usage reports success, reports failure  *)
(* or raises.                                                              *)
(***************************************************************************)
MaxMessages == 2

Usage(p, c, r, w) ==
    [prompt_tokens |-> p, completion_tokens |-> c,
     cache_read_input_tokens |-> r, cache_creation_input_tokens |-> w]

Usages == { Usage(0, 0, 0, 0), Usage(100, 50, 20, 0), Usage(0, 50, 0, 5),
            Usage(0, 0, 20, 5) }

\* The content of a message: a mapping, or the same as JSON text.
Content(kind, usage) == [kind |-> kind, usage |-> usage, model |-> "gpt-5"]

MessageInputs ==
    { [type |-> "assistant_response_end", content |-> Content("dict", u)] :
          u \in Usages }
      \cup { [type |-> "assistant_response_end",
              content |-> Content("str", Usage(100, 50, 20, 0))],
             [type |-> "assistant",
              content |-> Content("dict", Usage(100, 50, 20, 0))] }

Accounts == { "none", "account-1" }

InsertOutcomes == { "ok", "no_message_id", "raises" }

LookupOutcomes == { "ok", "raises" }

DeductOutcomes == { "success", "failure", "raises" }

InitAddMessage ==
    /\ DriverWaits
    /\ CallerDefaults
    /\ PromptIdle
    /\ history = <<>>
    /\ auto_continue_count = 0
    /\ accumulated_content = <<>>
    /\ OnceIdle
    /\ FetchIdle
    /\ account \in Accounts
    /\ messages_table = <<>>
    /\ deductions = <<>>
    /\ replies = <<>>

\* Faulty variant: the billing block does not wait for a message id.
HasMessageId_Unchecked(insert) == insert # "raises"

\* Line 172: the insert returned a row that carries a message_id.
HasMessageId(insert) == insert = "ok"

\* Line 174: only a response-end record whose content is a mapping is billed.
CarriesUsage(message) ==
    message.type = "assistant_response_end" /\ message.content.kind = "dict"

\* Faulty variant: the owner of the thread is not looked at.
ShouldDeduct_AnyOwner(user_id, usage) ==
    usage.prompt_tokens > 0 \/ usage.completion_tokens > 0

\* Line 188.
ShouldDeduct(user_id, usage) ==
    /\ user_id # "none"
    /\ usage.prompt_tokens > 0 \/ usage.completion_tokens > 0

\* The call of lines 195-203.
Deduction(user_id, message_id, content) ==
    [account_id |-> user_id,
     prompt_tokens |-> content.usage.prompt_tokens,
     completion_tokens |-> content.usage.completion_tokens,
     model |-> content.model,
     message_id |-> message_id,
     cache_read_tokens |-> content.usage.cache_read_input_tokens,
     cache_creation_tokens |-> content.usage.cache_creation_input_tokens]

\* Faulty variant: an exception of deduct_usage reaches the caller.
Outcome_BillingRaises(insert, deduct) ==
    IF insert = "raises" \/ deduct = "raises" THEN "raised"
    ELSE IF insert = "no_message_id" THEN "none"
    ELSE "message"

\* What the caller gets: the saved row (215), None (218) or the exception
\* of the insert (219-221); the billing outcome plays no part (205-214).
Outcome(insert, deduct) ==
    IF insert = "raises" THEN "raised"
    ELSE IF insert = "no_message_id" THEN "none"
    ELSE "message"

add_message ==
    /\ Len(replies) < MaxMessages
    /\ \E message \in MessageInputs, insert \in InsertOutcomes,
          lookup \in LookupOutcomes, deduct \in DeductOutcomes :
          LET message_id == Len(messages_table) + 1
              saved_message == [message_id |-> message_id, type |-> message.type,
                                content |-> message.content]
              billing == HasMessageId(insert) /\ CarriesUsage(message)
              called == /\ billing
                        /\ lookup = "ok"
                        /\ ShouldDeduct(account, message.content.usage)
          IN  /\ messages_table' = IF insert = "raises"
                                   THEN messages_table
                                   ELSE Append(messages_table, saved_message)
              /\ deductions' = IF called
                               THEN Append(deductions,
                                           Deduction(account, message_id,
                                                     message.content))
                               ELSE deductions
              /\ replies' = Append(replies,
                    [returned |-> Outcome(insert, IF called THEN deduct ELSE "not_called"),
                     message_id |-> IF insert = "ok" THEN message_id ELSE 0,
                     row |-> IF insert = "raises" THEN 0 ELSE message_id,
                     input |-> message,
                     insert |-> insert,
                     lookup |-> IF billing THEN lookup ELSE "not_called",
                     deduct |-> IF called THEN deduct ELSE "not_called"])
    /\ UNCHANGED <<driverVars, onceVars, fetchVars, callerVars, promptVars, account>>

NextAddMessage == add_message

SpecAddMessage == InitAddMessage /\ [][NextAddMessage]_vars

(***************************************************************************)
(* Vocabulary of the properties about add_message.                         *)
(***************************************************************************)
DeductionsFor(message_id) ==
    SelectSeq(deductions, LAMBDA d : d.message_id = message_id)

NonzeroUsage(usage) ==
    \/ usage.prompt_tokens # 0
    \/ usage.completion_tokens # 0
    \/ usage.cache_read_input_tokens # 0
    \/ usage.cache_creation_input_tokens # 0

\* The deduction carries the counts and the message id of the row.
ExactFigures(d, row) ==
    /\ d.account_id = account
    /\ d.message_id = row.message_id
    /\ d.prompt_tokens = row.content.usage.prompt_tokens
    /\ d.completion_tokens = row.content.usage.completion_tokens
    /\ d.cache_read_tokens = row.content.usage.cache_read_input_tokens
    /\ d.cache_creation_tokens = row.content.usage.cache_creation_input_tokens

\* The call that persisted the row.
CallOf(row) == CHOOSE i \in DOMAIN replies : replies[i].row = row.message_id

(***************************************************************************)
(* C18 as stated: deduct_usage is invoked exactly once for each persisted  *)
(* assistant_response_end record that carries nonzero token usage on a     *)
(* thread with an owning account, with that record's four counts and its   *)
(* message id, and for no other message.                                   *)
(***************************************************************************)
C18_Original ==
    \A n \in DOMAIN messages_table :
        LET row == messages_table[n]
        IN  IF /\ row.type = "assistant_response_end"
               /\ NonzeroUsage(row.content.usage)
               /\ account # "none"
            THEN /\ Len(DeductionsFor(row.message_id)) = 1
                 /\ ExactFigures(DeductionsFor(row.message_id)[1], row)
            ELSE DeductionsFor(row.message_id) = <<>>

(***************************************************************************)
(* C18 as amended: deduct_usage is invoked exactly once for each           *)
(* assistant_response_end record whose insert returned its message id,     *)
(* whose content is a mapping with a prompt or completion count above      *)
(* zero, on a thread whose owner lookup succeeded and gave an account,     *)
(* with that record's four counts and its message id; it is invoked for no *)
(* other message.                                                          *)
(***************************************************************************)
C18_Amended ==
    /\ \A n \in DOMAIN messages_table :
        LET row == messages_table[n]
            call == replies[CallOf(row)]
        IN  IF /\ row.type = "assistant_response_end"
               /\ row.content.kind = "dict"
               /\ row.content.usage.prompt_tokens > 0
                    \/ row.content.usage.completion_tokens > 0
               /\ account # "none"
               /\ call.insert = "ok"
               /\ call.lookup = "ok"
            THEN /\ Len(DeductionsFor(row.message_id)) = 1
                 /\ ExactFigures(DeductionsFor(row.message_id)[1], row)
            ELSE DeductionsFor(row.message_id) = <<>>
    /\ \A i \in DOMAIN deductions :
          deductions[i].message_id \in DOMAIN messages_table

C18_Witness ==
    /\ Len(messages_table) = 2
    /\ Len(deductions) = 2
    /\ deductions[1].message_id = 1
    /\ deductions[1].prompt_tokens = 100
    /\ deductions[1].completion_tokens = 50
    /\ deductions[1].cache_read_tokens = 20
    /\ deductions[2].message_id = 2
    /\ deductions[2].prompt_tokens = 0
    /\ deductions[2].completion_tokens = 50
    /\ deductions[2].cache_creation_tokens = 5

(***************************************************************************)
(* C19: if deduct_usage reports failure or raises while an                 *)
(* assistant_response_end message is added, add_message still returns the  *)
(* persisted message record and raises nothing, and the persisted message  *)
(* is neither removed nor altered.                                         *)
(***************************************************************************)
C19_BillingFailureKeepsMessage ==
    \A i \in DOMAIN replies :
        replies[i].deduct \in { "failure", "raises" } =>
            /\ replies[i].returned = "message"
            /\ replies[i].message_id \in DOMAIN messages_table
            /\ messages_table[replies[i].message_id] =
                  [message_id |-> replies[i].message_id,
                   type |-> "assistant_response_end",
                   content |-> replies[i].input.content]

C19_Witness ==
    /\ Len(replies) = 2
    /\ replies[1].deduct = "raises"
    /\ replies[1].returned = "message"
    /\ replies[2].deduct = "failure"
    /\ replies[2].returned = "message"
    /\ Len(messages_table) = 2

(***************************************************************************)
(* get_llm_messages (lines 223-297): the thread's LLM rows are fetched in  *)
(* batches ordered by created_at and then turned into messages.  A row is  *)
(* known by its message_id, which here is its position in creation order,  *)
(* and by the kind of its content.                                         *)
(***************************************************************************)
MaxRows == 4

\* batch_size of line 244 is 1000; the model pages by 2.
batch_size == 2

\* The content of a row: a mapping, JSON text of a mapping, text that is no
\* JSON, a list (or JSON text of something that is no mapping), an
\* image_context row with its base64 data, and one without.
RowKinds == { "dict", "json_object", "bad_json", "list", "image", "image_no_data" }

Row(message_id, kind) ==
    [message_id |-> message_id,
     type |-> IF kind \in { "image", "image_no_data" } THEN "image_context"
              ELSE "assistant",
     content |-> kind]

StoredRows ==
    UNION { { [i \in 1..n |-> Row(i, kinds[i])] : kinds \in [1..n -> RowKinds] } :
            n \in 0..MaxRows }

InitFetch ==
    /\ DriverWaits
    /\ CallerDefaults
    /\ PromptIdle
    /\ history = <<>>
    /\ auto_continue_count = 0
    /\ accumulated_content = <<>>
    /\ OnceIdle
    /\ StoreIdle
    /\ rows \in StoredRows
    /\ offset = 0
    /\ all_messages = <<>>
    /\ fetch_pc = "loop"
    /\ fetched = <<>>
    /\ queries = 0

Min(a, b) == IF a <= b THEN a ELSE b

\* .order('created_at').range(first, last): the rows at positions first to
\* last, counted from 0 and both included.
Range(first, last) == SubSeq(rows, first + 1, Min(last + 1, Len(rows)))

\* Lines 295-297: any exception makes the result the empty list.
ReturnEmpty(why) ==
    /\ fetched' = <<>>
    /\ fetch_pc' = why

\* Lines 247-259: one turn of the paging loop.
FetchBatch ==
    /\ fetch_pc = "loop"
    /\ queries' = queries + 1
    /\ \/ /\ ReturnEmpty("store_error")
          /\ UNCHANGED <<offset, all_messages>>
       \/ LET data == Range(offset, offset + batch_size - 1)
          IN  /\ fetched' = fetched
              /\ IF data = <<>>
                 THEN /\ fetch_pc' = "parse"
                      /\ UNCHANGED <<offset, all_messages>>
                 ELSE /\ all_messages' = all_messages \o data
                      /\ IF Len(data) < batch_size
                         THEN /\ fetch_pc' = "parse"
                              /\ offset' = offset
                         ELSE /\ fetch_pc' = "loop"
                              /\ offset' = offset + batch_size
    /\ UNCHANGED <<driverVars, onceVars, storeVars, callerVars, promptVars, rows>>

\* Lines 270-291 for one row: the message appended, if any.
Parsed(item) ==
    IF item.content \in { "dict", "json_object", "image" }
    THEN <<[message_id |-> item.message_id, type |-> item.type]>>
    ELSE <<>>

\* Line 284 or 290 raises TypeError: the content is no mapping after all.
Unsubscriptable(item) == item.content = "list"

RECURSIVE ParseAll(_)
ParseAll(items) ==
    IF items = <<>> THEN <<>>
    ELSE Parsed(Head(items)) \o ParseAll(Tail(items))

\* Lines 262-293: the rows become messages.
ParseMessages ==
    /\ fetch_pc = "parse"
    /\ IF \E i \in DOMAIN all_messages : Unsubscriptable(all_messages[i])
       THEN ReturnEmpty("parse_error")
       ELSE /\ fetched' = ParseAll(all_messages)
            /\ fetch_pc' = "returned"
    /\ UNCHANGED <<driverVars, onceVars, storeVars, callerVars, promptVars, rows,
                   offset, all_messages, queries>>

NextFetch ==
    \/ FetchBatch
    \/ ParseMessages

SpecFetch == InitFetch /\ [][NextFetch]_vars

(***************************************************************************)
(* C20 as stated: for a thread with any number of stored LLM messages, the *)
(* paged fetch, when no store query fails, returns every stored LLM        *)
(* message exactly once, in creation order.                                *)
(***************************************************************************)
FetchEnded == fetch_pc \in { "returned", "parse_error" }

MessageIds(msgs) == [i \in DOMAIN msgs |-> msgs[i].message_id]

C20_Original == FetchEnded => MessageIds(fetched) = MessageIds(rows)

\* What holds of the paging itself: when no query raises and no row makes
\* the parsing raise, the rows that can be turned into messages come back
\* once each, in creation order, after one query per full batch plus one.
Decodable(item) == item.content \in { "dict", "json_object", "image" }

C20_PagingComplete ==
    /\ offset = batch_size * (IF fetch_pc = "loop" THEN queries ELSE queries - 1)
         \/ fetch_pc = "store_error"
    /\ fetch_pc \in { "parse", "returned", "parse_error" } =>
          /\ all_messages = rows
          /\ queries = (Len(rows) \div batch_size) + 1
    /\ fetch_pc = "returned" =>
          MessageIds(fetched) = MessageIds(SelectSeq(rows, Decodable))
    /\ fetch_pc = "parse_error" =>
          /\ fetched = <<>>
          /\ \E i \in DOMAIN rows : Unsubscriptable(rows[i])

(***************************************************************************)
(* The driver under fair scheduling: a generator that can take a step      *)
(* eventually takes one (its caller keeps iterating it).                   *)
(***************************************************************************)
SpecFair == Spec /\ WF_vars(Next)

Stopped == pc = "done"

(***************************************************************************)
(* C22 as stated: for every ceiling k >= 1 the driver stops after a number *)
(* of _run_once invocations bounded by the ceiling, also in runs in which  *)
(* streams fail with provider-overload errors.                             *)
(***************************************************************************)
C22_Original ==
    (Wrapped /\ native_max_auto_continues >= 1)
        => runs <= native_max_auto_continues

\* What holds instead: every overload adds an invocation the ceiling does not
\* count, so the bound grows with the number of overloads the provider
\* raises; the driver stops once the provider stops raising them.
C22_BoundWithOverloads ==
    (Wrapped /\ native_max_auto_continues >= 1)
        => /\ runs <= native_max_auto_continues + overloads
           /\ overloads = 0 => runs <= native_max_auto_continues

C22_EveryOverloadAddsARun ==
    /\ Wrapped
    /\ native_max_auto_continues = MaxCeiling
    /\ overloads = MaxOverloads
    /\ runs = MaxCeiling + MaxOverloads

C22_StopsWhenOverloadsEnd == <>Stopped

(***************************************************************************)
(* C23 as stated: if loading the history, counting tokens or compressing   *)
(* fails during _run_once, the turn ends with the error record and no      *)
(* transport call is issued for it: no request built from an empty history *)
(* after a store failure, none uncompressed above the safe limit after a   *)
(* failed compression.                                                     *)
(***************************************************************************)
LoadFailed == loaded \in { "store_failed", "client_error" }

BudgetStepFailed == swallowed # {}

C23_Original ==
    (LoadFailed \/ BudgetStepFailed) =>
        /\ ~Sent
        /\ step = "done" => IsErrorChunk(result)

\* Two of the requests the claim rules out.
C23_SentFromEmptyHistory ==
    /\ loaded = "store_failed"
    /\ history # <<>>
    /\ Sent
    /\ request.messages = <<working_system_prompt>>
    /\ result = ResponseGenerator

C23_SentAboveSafeLimit ==
    /\ "compress_messages" \in swallowed
    /\ Sent
    /\ RequestSize = final_token_count
    /\ RequestSize > safe_limit
    /\ result = ResponseGenerator

(***************************************************************************)
(* C24: cache annotation followed by validation is applied to the prepared *)
(* request exactly when the pre-check token count of system prompt plus    *)
(* history is below 80,000; at 80,000 or above neither is applied and the  *)
(* prepared request reaches the budget check unannotated.  The count is    *)
(* the one the pre-check holds: what the token counter returned for the    *)
(* system prompt and the loaded history, and 0 when the counter raised.    *)
(***************************************************************************)
AnnotatorCalled == annotation \in { "marked", "other", "raised" }

PreCheckDone == step \in { "budget", "compress", "omit", "collapse", "transport",
                           "interpret" } \/ Sent

C24_AnnotationThreshold ==
    /\ PreCheckDone => annotation \in { "marked", "other", "skipped" }
    /\ AnnotatorCalled <=> (annotation # "none" /\ token_count < 80000)
    /\ annotation = "skipped" <=> (annotation # "none" /\ token_count >= 80000)
    /\ annotation # "none" =>
          token_count = IF "token_count" \in swallowed
                        THEN 0
                        ELSE token_counter(<<working_system_prompt>> \o messages)
    /\ (step = "budget" /\ annotation = "skipped")
          => prepared_messages = PreparedMessages(messages)

C24_Witness ==
    /\ Sent
    /\ token_count = 80000
    /\ annotation = "skipped"
    /\ request.messages = PreparedMessages(messages)

\* Below the threshold the annotator is called.
C24_WitnessBelow ==
    /\ Sent
    /\ "token_count" \notin swallowed
    /\ token_count = 450
    /\ annotation = "marked"

(***************************************************************************)
(* C25 as stated, for the runs most favourable to it (nothing is           *)
(* compressed and the annotator keeps to its contract): when the caller    *)
(* supplies a temporary message, the request sent to the transport on the  *)
(* first iteration (iteration counter 0) contains it, and the requests of  *)
(* later iterations do not.                                                *)
(***************************************************************************)
TemporarySupplied == temporary_message # NoMessage

InRequest(m) ==
    \E i \in DOMAIN request.messages : Unmark(request.messages[i]) = m

C25_Original ==
    (Sent /\ TemporarySupplied /\ calls = <<>>
          /\ annotation \in { "marked", "skipped" })
        => (InRequest(temporary_message) <=> auto_continue_count = 0)

\* What holds instead: _run_once is handed the temporary message on the
\* first iteration and never reads it, so no request contains it.
C25_NeverInRequest ==
    /\ temp_msg = IF auto_continue_count = 0 THEN temporary_message ELSE NoMessage
    /\ (Sent /\ TemporarySupplied) => ~InRequest(temporary_message)

C25_PassedAndDropped ==
    /\ Sent
    /\ TemporarySupplied
    /\ temp_msg = temporary_message
    /\ auto_continue_count = 0
    /\ calls = <<>>
    /\ loaded = "ok"
    /\ Unmarked(request.messages) = <<working_system_prompt>> \o FilterSystem(history)

(***************************************************************************)
(* C26 as stated: in every reachable state of a run with ceiling k >= 1    *)
(* the iteration counter is at most k: one _run_once stream raises the     *)
(* counter by at most one, however many continuation signals (tool_calls   *)
(* finish chunks, length status chunks) it contains.                       *)
(***************************************************************************)
StreamsWithSignal == { r \in 1..runs : Contains(r, IsSignal) }

C26_Original ==
    (Wrapped /\ native_max_auto_continues >= 1) =>
        /\ auto_continue_count <= native_max_auto_continues
        /\ auto_continue_count <= Cardinality(StreamsWithSignal)

\* What holds instead: the counter is the number of continuation signals
\* consumed, whichever streams they came in.
C26_CountsEverySignal ==
    Wrapped => auto_continue_count = Count(produced, IsSignal)

\* One stream with two signals takes the counter past a ceiling of 1.
C26_Overshoot ==
    /\ Wrapped
    /\ native_max_auto_continues = 1
    /\ runs = 1
    /\ Count(StreamOf(1), IsSignal) = 2
    /\ auto_continue_count = 2

(***************************************************************************)
(* C27 as stated: fallback rerouting is idempotent: after any number of    *)
(* overload retries in one run, the model name used for the next transport *)
(* call carries the fallback routing prefix exactly once, in front of the  *)
(* original model name with its dated suffix removed.                      *)
(***************************************************************************)
\* The model name run_thread was called with.
OriginalModel == (CHOOSE input \in Inputs : input.history = history).llm_model

C27_Original ==
    (Wrapped /\ overloads >= 1) =>
        llm_model = <<FallbackPrefix>> \o RemoveDated(OriginalModel)

\* What holds instead: every retry puts one more prefix in front.
RECURSIVE Prefixed(_, _)
Prefixed(n, name) ==
    IF n = 0 THEN name ELSE <<FallbackPrefix>> \o Prefixed(n - 1, name)

C27_PrefixPerOverload ==
    (Wrapped /\ overloads >= 1) =>
        llm_model = Prefixed(overloads, RemoveDated(OriginalModel))

C27_PrefixTwice ==
    /\ Wrapped
    /\ overloads = 2
    /\ pc = "iter"
    /\ llm_model = <<FallbackPrefix, FallbackPrefix, "anthropic/claude-sonnet-4">>

(***************************************************************************)
(* C28: fallback rerouting is triggered only by an overload exception      *)
(* raised while the driver consumes a chunk stream.  A failure of the      *)
(* transport call inside _run_once, an overload included, comes back as    *)
(* the error record, which the driver forwards as one error chunk and then *)
(* stops, with the model name unchanged and no retry.                      *)
(***************************************************************************)
Rerouted == llm_model' # llm_model

RunOnceFailed == pc = "while" /\ failures' = failures + 1

FailureMessages == { RunOnceMessage(outcome) : outcome \in RunOnceOutcomes }

TransportOverloadReported ==
    /\ Len(out) >= 1
    /\ Last(out) = ErrorRecord(OverloadMarker)

C28_TransportOverloadStops ==
    /\ [][Rerouted => (pc = "iter" /\ overloads' = overloads + 1)]_vars
    /\ [][RunOnceFailed =>
            /\ \E message \in FailureMessages : out' = Append(out, ErrorRecord(message))
            /\ llm_model' = llm_model
            /\ overloads' = overloads
            /\ pc' = "done"
            /\ exit' = "return"]_vars
    /\ []((Wrapped /\ TransportOverloadReported) =>
            /\ pc = "done"
            /\ exit = "return"
            /\ Count(out, IsErrorChunk) = 1)
    /\ [][(Wrapped /\ TransportOverloadReported) => UNCHANGED <<runs, llm_model, out>>]_vars

C28_Witness ==
    /\ Wrapped
    /\ TransportOverloadReported
    /\ runs = 2
    /\ overloads = 0
    /\ auto_continue_count = 1
    /\ llm_model = <<"anthropic/claude-sonnet-4", DatedSuffix>>
    /\ pc = "done"

(***************************************************************************)
(* C29: deduct_usage is only ever invoked after the message insert has     *)
(* succeeded and returned a message id: when the insert raises or returns  *)
(* no message id, add_message performs no deduction (it raises again,      *)
(* respectively returns None).                                             *)
(***************************************************************************)
Billable(message) ==
    /\ CarriesUsage(message)
    /\ ShouldDeduct(account, message.content.usage)

C29_DeductAfterInsert ==
    /\ \A i \in DOMAIN replies :
          replies[i].insert # "ok" =>
              /\ replies[i].lookup = "not_called"
              /\ replies[i].deduct = "not_called"
              /\ replies[i].returned = IF replies[i].insert = "raises"
                                       THEN "raised"
                                       ELSE "none"
    /\ \A n \in DOMAIN deductions :
          \E i \in DOMAIN replies :
              /\ replies[i].insert = "ok"
              /\ replies[i].message_id = deductions[n].message_id
              /\ \E r \in DOMAIN messages_table :
                    messages_table[r].message_id = deductions[n].message_id

C29_Witness ==
    /\ Len(replies) = 2
    /\ replies[1].insert = "raises"
    /\ replies[2].insert = "no_message_id"
    /\ Billable(replies[1].input)
    /\ Billable(replies[2].input)
    /\ replies[1].returned = "raised"
    /\ replies[2].returned = "none"
    /\ deductions = <<>>

(***************************************************************************)
(* The system prompt of run_thread (lines 417-487): the working copy and   *)
(* the embedding of the XML tool instructions.  A mapping holds its values *)
(* by reference: a string is a value of its own, a list and the blocks in  *)
(* it are objects on the heap, known by their addresses.                   *)
(***************************************************************************)
MaxBlocks == 2

TextBlock == [type |-> "text", text |-> <<"prompt">>]

ImageBlock == [type |-> "image_url", text |-> <<>>]

BlockLists == UNION { [1..n -> { TextBlock, ImageBlock }] : n \in 0..MaxBlocks }

\* The system prompts a caller may pass: string content, a list of blocks,
\* or content of another type.
PromptInputs ==
    { [content |-> StrContent(<<"prompt">>), blocks |-> <<>>],
      [content |-> NoContent, blocks |-> <<>>] }
      \cup { [content |-> ListContent(1), blocks |-> b] : b \in BlockLists }

\* The text lines 436-461 build.
examples_content == "examples"

\* run_thread has been called and the driver has not started.
DriverNotStarted ==
    /\ native_max_auto_continues = MaxCeiling
    /\ llm_model = <<"gpt-5">>
    /\ history = <<>>
    /\ auto_continue = TRUE
    /\ auto_continue_count = 0
    /\ accumulated_content = <<>>
    /\ pc = "start"
    /\ out = <<>>
    /\ produced = <<>>
    /\ runs = 0
    /\ contRuns = 0
    /\ trigger = "start"
    /\ exit = "none"
    /\ prepared = <<>>
    /\ overloads = 0
    /\ exhausted = {}
    /\ failures = 0
    /\ returned = "none"

InitPrompt ==
    /\ DriverNotStarted
    /\ OnceIdle
    /\ StoreIdle
    /\ FetchIdle
    /\ CallerDefaults
    /\ \E input \in PromptInputs :
          /\ system_prompt = [role |-> "system", content |-> input.content]
          /\ heap_dicts = input.blocks
          /\ heap_lists = IF input.content.kind = "list"
                          THEN << [i \in DOMAIN input.blocks |-> i] >>
                          ELSE <<>>
    /\ given = DeepValue(system_prompt)
    /\ working_prompt = [role |-> "none", content |-> NoContent]
    /\ include_xml_examples \in BOOLEAN
    /\ xml_tool_calling \in BOOLEAN
    /\ openapi_schemas \in { <<>>, RegisteredSchemas }
    /\ item_index = 0
    /\ prompt_pc = "copy"

\* Line 418: dict.copy() makes a new mapping that holds the same values:
\* the same string, or the reference to the same list object.
CopyPrompt ==
    /\ prompt_pc = "copy"
    /\ working_prompt' = [role |-> system_prompt.role,
                          content |-> system_prompt.content]
    /\ prompt_pc' = "embed"
    /\ UNCHANGED <<driverVars, onceVars, storeVars, fetchVars, callerVars,
                   system_prompt, heap_lists, heap_dicts, given,
                   include_xml_examples, xml_tool_calling, openapi_schemas,
                   item_index>>

\* Line 479.
IsTextBlock(item) == item.type = "text"

\* Lines 421-476 and 486-487: the examples are appended to string content by
\* assigning a new string to the copy's key; list content is scanned.
EmbedExamples ==
    /\ prompt_pc = "embed"
    /\ IF include_xml_examples /\ xml_tool_calling /\ openapi_schemas # <<>>
       THEN CASE working_prompt.content.kind = "str" ->
                   /\ working_prompt' =
                         [working_prompt EXCEPT
                            !.content.text = Append(@, examples_content)]
                   /\ prompt_pc' = "done"
                   /\ UNCHANGED item_index
              [] working_prompt.content.kind = "list" ->
                   /\ item_index' = 1
                   /\ prompt_pc' = "scan"
                   /\ UNCHANGED working_prompt
              [] OTHER ->
                   /\ prompt_pc' = "done"
                   /\ UNCHANGED <<working_prompt, item_index>>
       ELSE /\ prompt_pc' = "done"
            /\ UNCHANGED <<working_prompt, item_index>>
    /\ UNCHANGED <<driverVars, onceVars, storeVars, fetchVars, callerVars,
                   system_prompt, heap_lists, heap_dicts, given,
                   include_xml_examples, xml_tool_calling, openapi_schemas>>

\* Lines 478-485, one turn of the loop: the first text block gets the
\* examples appended to its text, in the block itself.
ScanItem ==
    /\ prompt_pc = "scan"
    /\ LET items == heap_lists[working_prompt.content.at]
       IN  IF item_index > Len(items)
           THEN /\ prompt_pc' = "done"
                /\ UNCHANGED <<heap_dicts, item_index>>
           ELSE IF IsTextBlock(heap_dicts[items[item_index]])
                THEN /\ heap_dicts' =
                          [heap_dicts EXCEPT
                             ![items[item_index]].text = Append(@, examples_content)]
                     /\ prompt_pc' = "done"
                     /\ UNCHANGED item_index
                ELSE /\ item_index' = item_index + 1
                     /\ UNCHANGED <<heap_dicts, prompt_pc>>
    /\ UNCHANGED <<driverVars, onceVars, storeVars, fetchVars, callerVars,
                   system_prompt, working_prompt, heap_lists, given,
                   include_xml_examples, xml_tool_calling, openapi_schemas>>

NextPrompt ==
    \/ CopyPrompt
    \/ EmbedExamples
    \/ ScanItem

SpecPrompt == InitPrompt /\ [][NextPrompt]_vars

(***************************************************************************)
(* C30 as stated: run_thread leaves the caller's system_prompt unchanged:  *)
(* embedding the XML tool instructions and usage examples modifies only    *)
(* the working copy, both when the prompt content is a string and when it  *)
(* is a list of text blocks.                                               *)
(***************************************************************************)
C30_Original == DeepValue(system_prompt) = given

\* What holds instead: string content is left alone and only the copy gets
\* the examples; with list content the copy and the caller's prompt refer to
\* the same blocks, and both show the examples.
Embedded ==
    /\ prompt_pc = "done"
    /\ include_xml_examples /\ xml_tool_calling /\ openapi_schemas # <<>>

C30_StringPromptUnchanged ==
    /\ given.kind # "list" => DeepValue(system_prompt) = given
    /\ (Embedded /\ given.kind = "str") =>
          DeepValue(working_prompt).text = Append(given.text, examples_content)
    /\ (prompt_pc \in { "scan", "done" } /\ given.kind = "list") =>
          DeepValue(working_prompt) = DeepValue(system_prompt)

C30_CallerPromptModified ==
    /\ Embedded
    /\ given.kind = "list"
    /\ Len(given.items) = 2
    /\ given.items[2] = TextBlock
    /\ DeepValue(system_prompt).items[2].text = <<"prompt", examples_content>>

====
